---- MODULE Spec2Model ----
(***************************************************************************)
(* Hybrid temporal search of Ask Municipal Memory (hybridSearch utilities): *)
(* year extraction from the query, temporal filter, temporal weighting and  *)
(* the orchestrator performHybridSearch.                                    *)
(*                                                                          *)
(* Strings are sequences of one-character strings.  An optional value       *)
(* (JavaScript null / number) is the empty sequence or a one-element        *)
(* sequence.  Real numbers are fixed point: a score s stands for s / Unit,  *)
(* a temporal weight w for w / 10.                                          *)
(***************************************************************************)
EXTENDS Integers, Sequences, FiniteSets, TLC

VARIABLES
    pc,        \* "ready" before the call, "done" after it; per request, the
               \* await the chat handler is at
    op,        \* which exported function the call was ("none" before)
    chunks,    \* the caller's chunk array
    query,     \* the user query (sequence of characters)
    options,   \* the options object handed to performHybridSearch
    args,      \* the arguments of the call, as they were when it was made
    result,    \* value returned by the call
    calls      \* the performHybridSearch calls made so far, as <<input, output>>

vars == <<pc, op, chunks, query, options, args, result, calls>>

----------------------------------------------------------------------------
(* Bounds of the model *)

MaxTokens == 4      \* a query is the concatenation of at most MaxTokens tokens
MaxChunks == 3      \* length of the chunk lists
MaxYearDiff == 5    \* largest |queryYear - chunk.year| whose proximity is exact
MaxCalls == 3       \* calls in a run of repeated performHybridSearch calls

----------------------------------------------------------------------------
(* Characters and strings *)

Digits == <<"0", "1", "2", "3", "4", "5", "6", "7", "8", "9">>

IsDigit(c) == \E k \in 1..10 : Digits[k] = c

\* numeric value of a digit character
DigitVal(c) == (CHOOSE k \in 1..10 : Digits[k] = c) - 1

\* \s of the regular expressions
IsSpace(c) == c \in {" ", "\t", "\n"}

UpperCase == <<"A", "D", "E", "C", "I", "L", "N", "O", "P", "Q", "R", "U", "X", "É">>
LowerCase == <<"a", "d", "e", "c", "i", "l", "n", "o", "p", "q", "r", "u", "x", "é">>

\* canonical form of a character under the i flag
Lower(c) ==
    IF \E k \in 1..Len(UpperCase) : UpperCase[k] = c
    THEN LowerCase[CHOOSE k \in 1..Len(UpperCase) : UpperCase[k] = c]
    ELSE c

\* s[i..j], empty when j < i
Slice(s, i, j) == [k \in 1..(j - i + 1) |-> s[i + k - 1]]

\* \d{4} at position i of s
FourDigitsAt(s, i) ==
    /\ i >= 1
    /\ i + 3 <= Len(s)
    /\ \A k \in 0..3 : IsDigit(s[i + k])

\* parseInt of a string of four digits
parseInt(d) ==
    DigitVal(d[1]) * 1000 + DigitVal(d[2]) * 100 + DigitVal(d[3]) * 10 + DigitVal(d[4])

----------------------------------------------------------------------------
(* extractYearFromQuery *)

\* the alternatives of the non-capturing groups, in the order of the source
Cues2 ==
    << <<"e", "n">>,
       <<"d", "e">>,
       <<"d", "u">>,
       <<"p", "o", "u", "r", " ", "l", "'">>,
       <<"p", "o", "u", "r">>,
       <<"a", "n", "n", "é", "e">>,
       <<"e", "x", "e", "r", "c", "i", "c", "e">> >>

Cues3 ==
    << <<"l", "'">>,
       <<"l", "e">>,
       <<"l", "a">> >>

\* yearPatterns, in the order of the source: the cue list of each pattern
\* (the first pattern, /(\d{4})/g, has none)
yearPatterns == << <<>>, Cues2, Cues3 >>

\* the literal cue stands at position i of s (i flag: case-insensitive)
CueAt(cue, s, i) ==
    /\ i + Len(cue) - 1 <= Len(s)
    /\ \A k \in 1..Len(cue) : Lower(s[i + k - 1]) = cue[k]

\* number of consecutive \s characters of s from position j on
RECURSIVE SpaceRun(_, _)
SpaceRun(s, j) ==
    IF j <= Len(s) /\ IsSpace(s[j]) THEN 1 + SpaceRun(s, j + 1) ELSE 0

\* length of the match of cue \s+ \d{4} at position i, 0 when there is none
CueMatchLen(cue, s, i) ==
    IF ~CueAt(cue, s, i) THEN 0
    ELSE LET j == i + Len(cue)
             n == SpaceRun(s, j)
         IN  IF n >= 1 /\ FourDigitsAt(s, j + n) THEN Len(cue) + n + 4 ELSE 0

\* length of the match of the pattern with cue list cues at position i of s,
\* 0 when the pattern does not match there; alternatives are tried in order
MatchLenAt(cues, s, i) ==
    IF cues = <<>>
    THEN IF FourDigitsAt(s, i) THEN 4 ELSE 0
    ELSE IF \E k \in 1..Len(cues) : CueMatchLen(cues[k], s, i) > 0
         THEN CueMatchLen(cues[CHOOSE k \in 1..Len(cues) :
                                  /\ CueMatchLen(cues[k], s, i) > 0
                                  /\ \A h \in 1..(k - 1) : CueMatchLen(cues[h], s, i) = 0],
                          s, i)
         ELSE 0

\* String.prototype.match with a g pattern: the matched substrings, left to
\* right, each scan resuming after the previous match (<<>> stands for null)
RECURSIVE GlobalMatch(_, _, _)
GlobalMatch(cues, s, from) ==
    IF from > Len(s) THEN <<>>
    ELSE LET n == MatchLenAt(cues, s, from)
         IN  IF n > 0
             THEN <<Slice(s, from, from + n - 1)>> \o GlobalMatch(cues, s, from + n)
             ELSE GlobalMatch(cues, s, from + 1)

\* m.match(/(\d{4})/): the first four consecutive digits of m, <<>> when none
RECURSIVE FirstFourDigits(_, _)
FirstFourDigits(m, from) ==
    IF from > Len(m) THEN <<>>
    ELSE IF FourDigitsAt(m, from) THEN Slice(m, from, from + 3)
         ELSE FirstFourDigits(m, from + 1)

\* the match of a pattern the loop body looks at: matches[0]
ExaminedMatch(matches) == matches[1]

\* validation of the parsed year
YearInRange_open(year) == year >= 1900
YearInRange(year) == year >= 1900 /\ year <= 2100

\* body of the loop for one pattern: <<year>> when the pattern returns a year
PatternYear(cues, q) ==
    LET matches == GlobalMatch(cues, q, 1)
    IN  IF matches = <<>> THEN <<>>
        ELSE LET yearMatch == FirstFourDigits(ExaminedMatch(matches), 1)
             IN  IF yearMatch = <<>> THEN <<>>
                 ELSE IF YearInRange(parseInt(yearMatch))
                      THEN <<parseInt(yearMatch)>>
                      ELSE <<>>

\* the for loop from pattern number k on
RECURSIVE ExtractFrom(_, _)
ExtractFrom(q, k) ==
    IF k > Len(yearPatterns) THEN <<>>
    ELSE IF PatternYear(yearPatterns[k], q) # <<>>
         THEN PatternYear(yearPatterns[k], q)
         ELSE ExtractFrom(q, k + 1)

extractYearFromQuery(q) == ExtractFrom(q, 1)

----------------------------------------------------------------------------
(* Numbers *)

RECURSIVE Pow(_, _)
Pow(b, e) == IF e = 0 THEN 1 ELSE b * Pow(b, e - 1)

\* the fixed-point representation of 1.0
Unit == Pow(10, MaxYearDiff + 1)

\* Math.abs
Abs(x) == IF x < 0 THEN 0 - x ELSE x

\* destructuring defaults of performHybridSearch (temporalWeight in tenths)
DefaultTemporalWeight == 3
DefaultYearTolerance == 2

----------------------------------------------------------------------------
(* calculateTemporalProximity: Math.pow(0.8, |queryYear - documentYear|) *)

calculateTemporalProximity_linear(queryYear, documentYear) ==
    LET yearDiff == Abs(queryYear - documentYear)
    IN  Unit - yearDiff * (Unit \div 5)
calculateTemporalProximity(queryYear, documentYear) ==
    LET yearDiff == Abs(queryYear - documentYear)
    IN  Pow(8, yearDiff) * Pow(10, MaxYearDiff + 1 - yearDiff)

----------------------------------------------------------------------------
(* filterByYear *)

\* !chunk.year : the property is missing or undefined, or the number is 0
YearFalsy(chunk) == ("year" \notin DOMAIN chunk) \/ chunk.year = 0

\* the predicate handed to Array.prototype.filter
KeepChunk(chunk, targetYear, tolerance) ==
    IF YearFalsy(chunk) THEN TRUE
    ELSE Abs(chunk.year - targetYear) <= tolerance

Reverse(s) == [i \in 1..Len(s) |-> s[Len(s) + 1 - i]]
filterByYear_reverse(cs, targetYear, tolerance) ==
    Reverse(SelectSeq(cs, LAMBDA chunk : KeepChunk(chunk, targetYear, tolerance)))
filterByYear(cs, targetYear, tolerance) ==
    SelectSeq(cs, LAMBDA chunk : KeepChunk(chunk, targetYear, tolerance))

----------------------------------------------------------------------------
(* applyTemporalWeighting *)

\* { ...obj, ...extra } : a new object with the properties of both
ObjectSpread(obj, extra) ==
    [k \in (DOMAIN obj) \cup (DOMAIN extra) |->
        IF k \in DOMAIN extra THEN extra[k] ELSE obj[k]]

\* (1 - temporalWeight) * score + temporalWeight * temporalScore
HybridScore_swapped(score, temporalScore, temporalWeight) ==
    (temporalWeight * score + (10 - temporalWeight) * temporalScore) \div 10
HybridScore(score, temporalScore, temporalWeight) ==
    ((10 - temporalWeight) * score + temporalWeight * temporalScore) \div 10

\* the function handed to Array.prototype.map
WeightChunk_penalise(chunk, queryYear, temporalWeight) ==
    IF YearFalsy(chunk)
    THEN ObjectSpread(chunk, [finalScore |-> HybridScore(chunk.score, 0, temporalWeight),
                              temporalScore |-> 0])
    ELSE LET temporalScore == calculateTemporalProximity(queryYear, chunk.year)
             finalScore == HybridScore(chunk.score, temporalScore, temporalWeight)
         IN  ObjectSpread(chunk, [temporalScore |-> temporalScore,
                                  finalScore |-> finalScore,
                                  originalScore |-> chunk.score])
WeightChunk_lostOriginal(chunk, queryYear, temporalWeight) ==
    IF YearFalsy(chunk)
    THEN ObjectSpread(chunk, [finalScore |-> chunk.score])
    ELSE LET temporalScore == calculateTemporalProximity(queryYear, chunk.year)
             finalScore == HybridScore(chunk.score, temporalScore, temporalWeight)
         IN  ObjectSpread(chunk, [temporalScore |-> temporalScore,
                                  finalScore |-> finalScore,
                                  originalScore |-> finalScore])
WeightChunk(chunk, queryYear, temporalWeight) ==
    IF YearFalsy(chunk)
    THEN ObjectSpread(chunk, [finalScore |-> chunk.score])
    ELSE LET temporalScore == calculateTemporalProximity(queryYear, chunk.year)
             finalScore == HybridScore(chunk.score, temporalScore, temporalWeight)
         IN  ObjectSpread(chunk, [temporalScore |-> temporalScore,
                                  finalScore |-> finalScore,
                                  originalScore |-> chunk.score])

applyTemporalWeighting_dropUndated(cs, queryYear, temporalWeight) ==
    [i \in 1..Len(SelectSeq(cs, LAMBDA c : ~YearFalsy(c))) |->
        WeightChunk(SelectSeq(cs, LAMBDA c : ~YearFalsy(c))[i], queryYear, temporalWeight)]
applyTemporalWeighting(cs, queryYear, temporalWeight) ==
    [i \in 1..Len(cs) |-> WeightChunk(cs[i], queryYear, temporalWeight)]

----------------------------------------------------------------------------
(* performHybridSearch *)

\* const { key = default } = options
Option(opts, key, default) == IF key \in DOMAIN opts THEN opts[key] ELSE default

\* truthiness of the extracted year in `queryYear && ...`
Truthy(queryYear) == queryYear # <<>> /\ queryYear[1] # 0

\* [...chunks] : a fresh array with the same elements.  ref tells whether the
\* working array is the caller's array or a new one
ArraySpread_alias(arr) == [ref |-> "caller", elems |-> arr]
ArraySpread(arr) == [ref |-> "fresh", elems |-> arr]

\* the searchMetadata object literal
InitialMetadata_zero(queryYear, n) ==
    [queryYear |-> queryYear,
     temporalFilterApplied |-> FALSE,
     temporalWeightingApplied |-> FALSE,
     originalCount |-> n,
     filteredCount |-> 0]
InitialMetadata_shared(queryYear, n) ==
    IF result = <<>>
    THEN [queryYear |-> queryYear, temporalFilterApplied |-> FALSE,
          temporalWeightingApplied |-> FALSE, originalCount |-> n, filteredCount |-> n]
    ELSE [result.metadata EXCEPT !.queryYear = queryYear,
                                 !.originalCount = n, !.filteredCount = n]
InitialMetadata(queryYear, n) ==
    [queryYear |-> queryYear,
     temporalFilterApplied |-> FALSE,
     temporalWeightingApplied |-> FALSE,
     originalCount |-> n,
     filteredCount |-> n]

\* condition of the filtering step
FilterStepRuns_always(queryYear, enableFiltering) == Truthy(queryYear)
FilterStepRuns(queryYear, enableFiltering) == Truthy(queryYear) /\ enableFiltering

\* condition of the weighting step
WeightStepRuns(queryYear, enableWeighting) == Truthy(queryYear) /\ enableWeighting

\* the sort key
SortKey_score(queryYear, enableWeighting) == "score"
SortKey(queryYear, enableWeighting) ==
    IF Truthy(queryYear) /\ enableWeighting THEN "finalScore" ELSE "score"

\* insertion of x into a list sorted by (a, b) => b[key] - a[key], behind the
\* elements that do not compare after it (Array.prototype.sort is stable)
RECURSIVE SortedInsert_unstable(_, _, _)
SortedInsert_unstable(sorted, x, key) ==
    IF sorted = <<>> THEN <<x>>
    ELSE IF x[key] - Head(sorted)[key] >= 0
         THEN <<x>> \o sorted
         ELSE <<Head(sorted)>> \o SortedInsert_unstable(Tail(sorted), x, key)
RECURSIVE SortedInsert(_, _, _)
SortedInsert(sorted, x, key) ==
    IF sorted = <<>> THEN <<x>>
    ELSE IF x[key] - Head(sorted)[key] > 0
         THEN <<x>> \o sorted
         ELSE <<Head(sorted)>> \o SortedInsert(Tail(sorted), x, key)

\* Array.prototype.sort((a, b) => b[key] - a[key])
RECURSIVE ArraySort(_, _)
ArraySort(arr, key) ==
    IF arr = <<>> THEN <<>>
    ELSE SortedInsert(ArraySort(SubSeq(arr, 1, Len(arr) - 1), key), arr[Len(arr)], key)

\* step 1 on the working array and the metadata
FilterStep_fallback(st, queryYear, enableFiltering, yearTolerance) ==
    IF FilterStepRuns(queryYear, enableFiltering)
    THEN IF filterByYear(st.elems, queryYear[1], yearTolerance) = <<>>
         THEN [st EXCEPT !.metadata.temporalFilterApplied = TRUE]
         ELSE [ref |-> "fresh",
               elems |-> filterByYear(st.elems, queryYear[1], yearTolerance),
               metadata |-> [st.metadata EXCEPT
                                !.temporalFilterApplied = TRUE,
                                !.filteredCount =
                                    Len(filterByYear(st.elems, queryYear[1], yearTolerance))]]
    ELSE st
FilterStep(st, queryYear, enableFiltering, yearTolerance) ==
    IF FilterStepRuns(queryYear, enableFiltering)
    THEN [ref |-> "fresh",
          elems |-> filterByYear(st.elems, queryYear[1], yearTolerance),
          metadata |-> [st.metadata EXCEPT
                           !.temporalFilterApplied = TRUE,
                           !.filteredCount =
                               Len(filterByYear(st.elems, queryYear[1], yearTolerance))]]
    ELSE st

\* step 2 on the working array and the metadata
WeightStep(st, queryYear, enableWeighting, temporalWeight) ==
    IF WeightStepRuns(queryYear, enableWeighting)
    THEN [ref |-> "fresh",
          elems |-> applyTemporalWeighting(st.elems, queryYear[1], temporalWeight),
          metadata |-> [st.metadata EXCEPT !.temporalWeightingApplied = TRUE]]
    ELSE st

\* step 3: the working array is sorted in place
SortStep(st, queryYear, enableWeighting) ==
    [st EXCEPT !.elems = ArraySort(st.elems, SortKey(queryYear, enableWeighting))]

\* the returned object, and in callerArray the caller's array after the call
\* (it is the sorted array when the working array is the caller's own)
Returned(st, cs) ==
    [chunks |-> st.elems,
     metadata |-> st.metadata,
     callerArray |-> IF st.ref = "caller" THEN st.elems ELSE cs]

\* the body of performHybridSearch once the options are destructured and the
\* year is extracted
HybridSearchSteps(cs, queryYear, temporalWeight, yearTolerance, enableFiltering, enableWeighting) ==
    Returned(
        SortStep(
            WeightStep(
                FilterStep(
                    [ref |-> ArraySpread(cs).ref,
                     elems |-> ArraySpread(cs).elems,
                     metadata |-> InitialMetadata(queryYear, Len(cs))],
                    queryYear, enableFiltering, yearTolerance),
                queryYear, enableWeighting, temporalWeight),
            queryYear, enableWeighting),
        cs)

performHybridSearch_early(cs, q, opts) ==
    IF cs = <<>>
    THEN [chunks |-> <<>>, metadata |-> InitialMetadata(<<>>, 0), callerArray |-> cs]
    ELSE HybridSearchSteps(cs,
                           extractYearFromQuery(q),
                           Option(opts, "temporalWeight", DefaultTemporalWeight),
                           Option(opts, "yearTolerance", DefaultYearTolerance),
                           Option(opts, "enableFiltering", TRUE),
                           Option(opts, "enableWeighting", TRUE))
performHybridSearch(cs, q, opts) ==
    HybridSearchSteps(cs,
                      extractYearFromQuery(q),
                      Option(opts, "temporalWeight", DefaultTemporalWeight),
                      Option(opts, "yearTolerance", DefaultYearTolerance),
                      Option(opts, "enableFiltering", TRUE),
                      Option(opts, "enableWeighting", TRUE))

----------------------------------------------------------------------------
(* Inputs *)

RECURSIVE Flatten(_)
Flatten(ts) == IF ts = <<>> THEN <<>> ELSE Head(ts) \o Flatten(Tail(ts))

Tokens ==
    { <<"2", "0", "2", "5">>,
      <<"2", "0", "2", "3">>,
      <<"1", "2", "3", "4">>,
      <<"9">>,
      <<" ">>,
      <<"e", "n", " ">>,
      <<"E", "n", " ">>,
      <<"p", "o", "u", "r", " ">>,
      <<"l", "'", " ">> }

\* all sequences over S of length at most n
SeqsUpTo(S, n) == UNION { [1..k -> S] : k \in 0..n }

Queries == { Flatten(ts) : ts \in SeqsUpTo(Tokens, MaxTokens) }

\* "Quels sont les projets pour 2025?"
ScenarioQuery ==
    <<"Q", "u", "e", "l", "s", " ", "s", "o", "n", "t", " ", "l", "e", "s",
      " ", "p", "r", "o", "j", "e", "t", "s", " ", "p", "o", "u", "r", " ",
      "2", "0", "2", "5", "?">>

\* "", "en 2023", "1234 2025", "1234 en 2025" and the scenario query
HybridQueries ==
    { <<>>,
      ScenarioQuery,
      <<"e", "n", " ", "2", "0", "2", "3">>,
      <<"1", "2", "3", "4", " ", "2", "0", "2", "5">>,
      <<"1", "2", "3", "4", " ", "e", "n", " ", "2", "0", "2", "5">> }

\* a chunk as performVectorSearch builds it; score in hundredths
Chunk(text, score, year) ==
    [text |-> text, score |-> score * (Unit \div 100),
     filename |-> "pv.pdf", page |-> 1, year |-> year]

\* a chunk of a document stored without a year
UndatedChunk(text, score) ==
    [text |-> text, score |-> score * (Unit \div 100),
     filename |-> "pv.pdf", page |-> 1]

ChunkPool ==
    { Chunk("a", 78, 2025),
      Chunk("b", 82, 2020),
      UndatedChunk("c", 78),
      Chunk("d", 50, 0),
      Chunk("f", 78, 2026) }

ChunkLists == SeqsUpTo(ChunkPool, MaxChunks)

TargetYears == {2023, 2025}
Tolerances == {0, 2}
TemporalWeights == {0, 3, 10}

\* the options objects: complete ones, the empty one and a partial one
OptionsSet ==
    [temporalWeight : TemporalWeights, yearTolerance : Tolerances,
     enableFiltering : BOOLEAN, enableWeighting : BOOLEAN]
    \cup { <<>>, [enableFiltering |-> FALSE] }

----------------------------------------------------------------------------
(* Calls *)

CallExtractYear ==
    /\ pc = "ready"
    /\ pc' = "done"
    /\ op' = "extractYearFromQuery"
    /\ args' = [query |-> query]
    /\ result' = extractYearFromQuery(query)
    /\ UNCHANGED <<chunks, query, options, calls>>

CallFilterByYear ==
    /\ pc = "ready"
    /\ \E targetYear \in TargetYears, tolerance \in Tolerances :
          /\ args' = [chunks |-> chunks, targetYear |-> targetYear, tolerance |-> tolerance]
          /\ result' = filterByYear(chunks, targetYear, tolerance)
    /\ pc' = "done"
    /\ op' = "filterByYear"
    /\ UNCHANGED <<chunks, query, options, calls>>

CallApplyTemporalWeighting ==
    /\ pc = "ready"
    /\ \E queryYear \in TargetYears, temporalWeight \in TemporalWeights :
          /\ args' = [chunks |-> chunks, queryYear |-> queryYear,
                      temporalWeight |-> temporalWeight]
          /\ result' = applyTemporalWeighting(chunks, queryYear, temporalWeight)
    /\ pc' = "done"
    /\ op' = "applyTemporalWeighting"
    /\ UNCHANGED <<chunks, query, options, calls>>

CallCalculateTemporalProximity ==
    /\ pc = "ready"
    /\ pc' = "done"
    /\ op' = "calculateTemporalProximity"
    /\ result' = calculateTemporalProximity(args.queryYear, args.documentYear)
    /\ UNCHANGED <<chunks, query, options, args, calls>>

\* the effect of a call that returned r for the input in
HybridCallEffect(r, in) ==
    /\ result' = [chunks |-> r.chunks, metadata |-> r.metadata]
    /\ chunks' = r.callerArray
    /\ args' = in
    /\ calls' = Append(calls, <<in, [chunks |-> r.chunks, metadata |-> r.metadata]>>)

CallPerformHybridSearch ==
    /\ pc = "ready"
    /\ HybridCallEffect(performHybridSearch(chunks, query, options),
                        [chunks |-> chunks, query |-> query, options |-> options])
    /\ pc' = "done"
    /\ op' = "performHybridSearch"
    /\ UNCHANGED <<query, options>>

\* step 5 of the chat handler POST: the hybrid search on the chunks of the
\* vector search (chunks), the user message (query) and the handler's
\* HYBRID_SEARCH_CONFIG (options)
ChatHybridSearch ==
    /\ pc = "ready"
    /\ HybridCallEffect(performHybridSearch(chunks, query, options),
                        [chunks |-> chunks, query |-> query, options |-> options])
    /\ pc' = "done"
    /\ op' = "POST"
    /\ UNCHANGED <<query, options>>

----------------------------------------------------------------------------
(* One call of performHybridSearch *)

Init ==
    /\ pc = "ready"
    /\ op = "none"
    /\ chunks \in ChunkLists
    /\ query \in HybridQueries
    /\ options \in OptionsSet
    /\ args = <<>>
    /\ result = <<>>
    /\ calls = <<>>

Next == CallPerformHybridSearch

Spec == Init /\ [][Next]_vars

(* One call of any of the three functions that take a chunk list *)

StageQueries == { <<>>, <<"e", "n", " ", "2", "0", "2", "3">> }
StageOptions == { <<>>, [enableFiltering |-> FALSE] }

InitStages ==
    /\ pc = "ready"
    /\ op = "none"
    /\ chunks \in ChunkLists
    /\ query \in StageQueries
    /\ options \in StageOptions
    /\ args = <<>>
    /\ result = <<>>
    /\ calls = <<>>

NextStages == CallFilterByYear \/ CallApplyTemporalWeighting \/ CallPerformHybridSearch

SpecStages == InitStages /\ [][NextStages]_vars

(* One call of extractYearFromQuery *)

InitExtract ==
    /\ pc = "ready"
    /\ op = "none"
    /\ chunks = <<>>
    /\ query \in Queries
    /\ options = <<>>
    /\ args = <<>>
    /\ result = <<>>
    /\ calls = <<>>

NextExtract == CallExtractYear

SpecExtract == InitExtract /\ [][NextExtract]_vars

(* Several calls of performHybridSearch, one after the other *)

RepeatChunkLists ==
    { <<Chunk("a", 78, 2025), Chunk("b", 82, 2020)>>,
      <<UndatedChunk("c", 78), Chunk("f", 78, 2026)>> }
RepeatQueries == { <<>>, <<"e", "n", " ", "2", "0", "2", "5">> }
RepeatOptions == { <<>>, [enableFiltering |-> FALSE, enableWeighting |-> FALSE] }

\* the caller prepares the next call
NextRequest ==
    /\ pc = "done"
    /\ Len(calls) < MaxCalls
    /\ chunks' \in RepeatChunkLists
    /\ query' \in RepeatQueries
    /\ options' \in RepeatOptions
    /\ pc' = "ready"
    /\ UNCHANGED <<op, args, result, calls>>

InitRepeat ==
    /\ pc = "ready"
    /\ op = "none"
    /\ chunks \in RepeatChunkLists
    /\ query \in RepeatQueries
    /\ options \in RepeatOptions
    /\ args = <<>>
    /\ result = <<>>
    /\ calls = <<>>

NextRepeat == CallPerformHybridSearch \/ NextRequest

SpecRepeat == InitRepeat /\ [][NextRepeat]_vars

(* The hybrid search of one chat request *)

\* the values HYBRID_SEARCH_CONFIG can be given
HybridSearchConfigs ==
    [TEMPORAL_WEIGHT : TemporalWeights, YEAR_TOLERANCE : Tolerances,
     ENABLE_FILTERING : BOOLEAN, ENABLE_WEIGHTING : BOOLEAN]

InitChat ==
    /\ pc = "ready"
    /\ op = "none"
    /\ chunks \in ChunkLists
    /\ query \in HybridQueries
    /\ options \in HybridSearchConfigs
    /\ args = <<>>
    /\ result = <<>>
    /\ calls = <<>>

NextChat == ChatHybridSearch

SpecChat == InitChat /\ [][NextChat]_vars

(* One call of calculateTemporalProximity *)

ProximityYears == 2018..2028

InitProximity ==
    /\ pc = "ready"
    /\ op = "none"
    /\ chunks = <<>>
    /\ query = <<>>
    /\ options = <<>>
    /\ \E q \in ProximityYears :
          \E d \in (q - MaxYearDiff)..(q + MaxYearDiff) :
              args = [queryYear |-> q, documentYear |-> d]
    /\ result = <<>>
    /\ calls = <<>>

NextProximity == CallCalculateTemporalProximity

SpecProximity == InitProximity /\ [][NextProximity]_vars

----------------------------------------------------------------------------
(* The chat request handler POST of pages/api/chat.js *)

MaxRequests == 2    \* chat requests in flight together

Requests == 1..MaxRequests

CONTEXT_LIMIT == 10
VECTOR_LIMIT == 20

HYBRID_SEARCH_CONFIG ==
    [TEMPORAL_WEIGHT |-> 3, YEAR_TOLERANCE |-> 2,
     ENABLE_FILTERING |-> TRUE, ENABLE_WEIGHTING |-> TRUE]

\* String.prototype.trim
RECURSIVE trimStart(_)
trimStart(s) ==
    IF s # <<>> /\ IsSpace(Head(s)) THEN trimStart(Tail(s)) ELSE s
trim(s) == Reverse(trimStart(Reverse(trimStart(s))))

\* `const { message } = await request.json()` throws: the body is not JSON,
\* or it is the JSON value null, which cannot be destructured
JsonThrows(body) == body.json \in {"invalid", "null"}

\* !message || typeof message !== 'string' || message.trim().length === 0
MessageInvalid(body) ==
    \/ "message" \notin DOMAIN body
    \/ body.message.type # "string"
    \/ Len(trim(body.message.value)) = 0

\* validateEnvironmentVariables().valid
EnvValid(env) == env.HUGGINGFACE_API_KEY /\ env.QDRANT_URL

\* createErrorResponse: details are added when they are truthy
createErrorResponse(status, message, details) ==
    IF details = ""
    THEN [status |-> status, body |-> [error |-> message]]
    ELSE [status |-> status, body |-> [error |-> message, details |-> details]]

createSuccessResponse(data) == [status |-> 200, body |-> data]

\* the catch block of POST
CaughtResponse(errorMessage) ==
    createErrorResponse(500, "Erreur lors du traitement de votre demande", errorMessage)

\* a || b on numbers
OrElse(obj, key, other) ==
    IF key \in DOMAIN obj /\ obj[key] # 0 THEN obj[key] ELSE other

\* the chunk performVectorSearch builds from a point of the reply
PointToChunk(pt) ==
    IF "year" \in DOMAIN pt.payload
    THEN [text |-> pt.payload.text, score |-> pt.score,
          filename |-> pt.payload.filename, page |-> pt.payload.page_number,
          year |-> pt.payload.year]
    ELSE [text |-> pt.payload.text, score |-> pt.score,
          filename |-> pt.payload.filename, page |-> pt.payload.page_number]

\* qdrantData.result?.map(...).filter((chunk) => chunk.text) || []
VectorSearchChunks(reply) ==
    IF "result" \in DOMAIN reply
    THEN SelectSeq([i \in 1..Len(reply.result) |-> PointToChunk(reply.result[i])],
                   LAMBDA chunk : chunk.text # "")
    ELSE <<>>

\* if (!qdrantRes.ok) throw ...
VectorSearchSucceeded_unchecked(reply) == TRUE
VectorSearchSucceeded(reply) == reply.ok

\* Array.prototype.slice(0, n)
slice(arr, n) == SubSeq(arr, 1, IF Len(arr) < n THEN Len(arr) ELSE n)

\* buildContextText: one block per chunk, in the order of the list; a block
\* is given by what it is written from
ContextBlock(chunk) ==
    [filename |-> chunk.filename,
     page |-> chunk.page,
     year |-> IF YearFalsy(chunk) THEN <<>> ELSE <<chunk.year>>,
     temporalScore |-> OrElse(chunk, "temporalScore", 0),
     text |-> chunk.text]
buildContextText(cs) == [i \in 1..Len(cs) |-> ContextBlock(cs[i])]

buildUserPrompt(contextText, userMessage) ==
    [contextText |-> contextText, userMessage |-> userMessage]

\* buildEnrichedSources: one source per chunk, in the order of the list (the
\* file names of the model hold no digits, so a chunk without a year has no url)
EnrichedSource(chunk) ==
    [filename |-> chunk.filename,
     page |-> chunk.page,
     year |-> IF "year" \in DOMAIN chunk THEN <<chunk.year>> ELSE <<>>,
     score |-> OrElse(chunk, "finalScore", chunk.score),
     originalScore |-> OrElse(chunk, "originalScore", chunk.score),
     temporalScore |-> IF "temporalScore" \in DOMAIN chunk
                       THEN <<chunk.temporalScore>> ELSE <<>>,
     url |-> IF YearFalsy(chunk) THEN <<>> ELSE <<chunk.year, chunk.filename>>]
buildEnrichedSources(cs) == [i \in 1..Len(cs) |-> EnrichedSource(cs[i])]

\* steps 5 and 6 of POST: the locals after the hybrid search, the truncation
\* and the construction of the prompt
ContextLocals(hybrid, userMessage, limit) ==
    [topChunks |-> hybrid.chunks,
     searchMetadata |-> hybrid.metadata,
     finalChunks |-> slice(hybrid.chunks, limit),
     contextText |-> buildContextText(slice(hybrid.chunks, limit)),
     userPrompt |-> buildUserPrompt(buildContextText(slice(hybrid.chunks, limit)),
                                    userMessage)]

SearchContext_untruncated(rawChunks, userMessage) ==
    ContextLocals(performHybridSearch(rawChunks, userMessage, HYBRID_SEARCH_CONFIG),
                  userMessage, VECTOR_LIMIT)
SearchContext(rawChunks, userMessage) ==
    ContextLocals(performHybridSearch(rawChunks, userMessage, HYBRID_SEARCH_CONFIG),
                  userMessage, CONTEXT_LIMIT)

\* llmRes.choices?.[0]?.message?.content || "Désolé, ..."
Answer(reply) ==
    IF "content" \in DOMAIN reply /\ reply.content # ""
    THEN reply.content
    ELSE "Désolé, je n'ai pas pu générer de réponse."

\* steps 8 and 9 of POST
responseData(locals, answer) ==
    [answer |-> answer,
     sources |-> buildEnrichedSources(locals.finalChunks),
     chunksFound |-> Len(locals.finalChunks),
     searchMetadata |-> locals.searchMetadata,
     contextText |-> locals.contextText,
     userPrompt |-> locals.userPrompt]

(* Inputs of the handler *)

PaddedQuery == <<" ", "e", "n", " ", "2", "0", "2", "3", " ">>

Bodies ==
    { [json |-> "invalid"],
      [json |-> "null"],
      [json |-> "object"],
      [json |-> "object", message |-> [type |-> "number", value |-> 42]],
      [json |-> "object", message |-> [type |-> "string", value |-> <<>>]],
      [json |-> "object", message |-> [type |-> "string", value |-> <<" ", " ">>]],
      [json |-> "object", message |-> [type |-> "string", value |-> PaddedQuery]],
      [json |-> "object", message |-> [type |-> "string", value |-> <<"9">>]] }

Environments ==
    { [HUGGINGFACE_API_KEY |-> TRUE, QDRANT_URL |-> TRUE],
      [HUGGINGFACE_API_KEY |-> FALSE, QDRANT_URL |-> TRUE],
      [HUGGINGFACE_API_KEY |-> TRUE, QDRANT_URL |-> FALSE] }

Point(text, score, year) ==
    [score |-> score * (Unit \div 100),
     payload |-> [text |-> text, filename |-> "pv.pdf", page_number |-> 1,
                  year |-> year]]
UndatedPoint(text, score) ==
    [score |-> score * (Unit \div 100),
     payload |-> [text |-> text, filename |-> "pv.pdf", page_number |-> 1]]

PointNames ==
    <<"p01", "p02", "p03", "p04", "p05", "p06",
      "p07", "p08", "p09", "p10", "p11", "p12">>

\* twelve points of the years 2025, 2021, and without year, of growing score
TwelvePoints ==
    [i \in 1..12 |->
        IF i % 3 = 0 THEN UndatedPoint(PointNames[i], 60 + i)
        ELSE IF i % 3 = 1 THEN Point(PointNames[i], 60 + i, 2025)
        ELSE Point(PointNames[i], 60 + i, 2021)]

EmbeddingReplies == { [ok |-> TRUE], [ok |-> FALSE] }

VectorSearchReplies ==
    { [ok |-> FALSE],
      [ok |-> TRUE],
      [ok |-> TRUE, result |-> <<Point("a", 78, 2025), Point("", 90, 2025),
                                 Point("b", 82, 2020)>>],
      [ok |-> TRUE, result |-> TwelvePoints] }

GenerationReplies ==
    { [ok |-> FALSE],
      [ok |-> TRUE],
      [ok |-> TRUE, content |-> "Le conseil a voté."] }

(* The steps of one request; every await is the end of a step *)

\* the handler's local userMessage at step 5
userMessage_shared(r) == query[1]
userMessage(r) == query[r]

Respond(r, response) ==
    /\ result' = [result EXCEPT ![r] = response]
    /\ pc' = [pc EXCEPT ![r] = "responded"]

\* steps 1 to 3 of POST, up to the call of the embedding provider
Receive(r) ==
    /\ pc[r] = "received"
    /\ IF JsonThrows(args[r].body)
       THEN /\ Respond(r, CaughtResponse("request.json"))
            /\ UNCHANGED <<query, calls>>
       ELSE IF MessageInvalid(args[r].body)
       THEN /\ Respond(r, createErrorResponse(400, "Message manquant ou invalide", ""))
            /\ UNCHANGED <<query, calls>>
       ELSE IF ~EnvValid(args[r].env)
       THEN /\ Respond(r, CaughtResponse("Configuration manquante"))
            /\ query' = [query EXCEPT ![r] = trim(args[r].body.message.value)]
            /\ UNCHANGED calls
       ELSE /\ query' = [query EXCEPT ![r] = trim(args[r].body.message.value)]
            /\ calls' = [calls EXCEPT ![r] = Append(@, "embedding")]
            /\ pc' = [pc EXCEPT ![r] = "embedding"]
            /\ UNCHANGED result
    /\ UNCHANGED <<op, chunks, options, args>>

\* hf.featureExtraction settles; step 4 calls the vector search
EmbeddingReturns(r) ==
    /\ pc[r] = "embedding"
    /\ \E reply \in EmbeddingReplies :
          /\ args' = [args EXCEPT ![r].replies = Append(@, reply)]
          /\ IF reply.ok
             THEN /\ calls' = [calls EXCEPT ![r] = Append(@, "vectorSearch")]
                  /\ pc' = [pc EXCEPT ![r] = "vectorSearch"]
                  /\ UNCHANGED result
             ELSE /\ Respond(r, CaughtResponse("featureExtraction"))
                  /\ UNCHANGED calls
    /\ UNCHANGED <<op, chunks, query, options>>

\* performVectorSearch settles; steps 5 to 7 run the hybrid search, build the
\* context and call the generative model
VectorSearchReturns(r) ==
    /\ pc[r] = "vectorSearch"
    /\ \E reply \in VectorSearchReplies :
          /\ args' = [args EXCEPT ![r].replies = Append(@, reply)]
          /\ IF VectorSearchSucceeded(reply)
             THEN /\ chunks' = [chunks EXCEPT
                                   ![r] = SearchContext(VectorSearchChunks(reply),
                                                        userMessage(r))]
                  /\ calls' = [calls EXCEPT
                                  ![r] = @ \o <<"hybridSearch", "generation">>]
                  /\ pc' = [pc EXCEPT ![r] = "generation"]
                  /\ UNCHANGED result
             ELSE /\ Respond(r, CaughtResponse("Erreur lors de la recherche Qdrant"))
                  /\ UNCHANGED <<chunks, calls>>
    /\ UNCHANGED <<op, query, options>>

\* hf.chatCompletion settles; steps 8 and 9 build the response
GenerationReturns(r) ==
    /\ pc[r] = "generation"
    /\ \E reply \in GenerationReplies :
          /\ args' = [args EXCEPT ![r].replies = Append(@, reply)]
          /\ IF reply.ok
             THEN Respond(r, createSuccessResponse(responseData(chunks[r], Answer(reply))))
             ELSE Respond(r, CaughtResponse("chatCompletion"))
    /\ UNCHANGED <<op, chunks, query, options, calls>>

InitRequests ==
    /\ pc = [r \in Requests |-> "received"]
    /\ op = "POST"
    /\ chunks = [r \in Requests |-> <<>>]
    /\ query = [r \in Requests |-> <<>>]
    /\ options = HYBRID_SEARCH_CONFIG
    /\ args \in [Requests -> [body : Bodies, env : Environments, replies : {<<>>}]]
    /\ result = [r \in Requests |-> <<>>]
    /\ calls = [r \in Requests |-> <<>>]

NextRequests ==
    \E r \in Requests :
        \/ Receive(r)
        \/ EmbeddingReturns(r)
        \/ VectorSearchReturns(r)
        \/ GenerationReturns(r)

SpecRequests == InitRequests /\ [][NextRequests]_vars

----------------------------------------------------------------------------
(* chunkText of pages/api/QdrantUploader.js *)

MaxTextLen == 6     \* length of the texts handed to chunkText

\* the separators \n+ at the head of s removed
RECURSIVE SkipNewlines(_)
SkipNewlines(s) ==
    IF s # <<>> /\ Head(s) = "\n" THEN SkipNewlines(Tail(s)) ELSE s

\* String.prototype.split(/\n+/) of cur followed by s : the segments between
\* the maximal runs of newlines, the empty ones at both ends included
RECURSIVE SplitFrom(_, _)
SplitFrom(s, cur) ==
    IF s = <<>> THEN <<cur>>
    ELSE IF Head(s) = "\n" THEN <<cur>> \o SplitFrom(SkipNewlines(s), <<>>)
    ELSE SplitFrom(Tail(s), Append(cur, Head(s)))

split(text) == SplitFrom(text, <<>>)

\* the body of the loop: chunks and current after one paragraph
ChunkStep_dropOverflow(st, paragraph, maxLen) ==
    IF Len(st.current \o paragraph) > maxLen
    THEN [chunks |-> IF st.current # <<>> THEN Append(st.chunks, st.current)
                     ELSE st.chunks,
          current |-> <<>>]
    ELSE [chunks |-> st.chunks,
          current |-> st.current
                      \o (IF st.current # <<>> THEN <<"\n">> ELSE <<>>)
                      \o paragraph]
ChunkStep(st, paragraph, maxLen) ==
    IF Len(st.current \o paragraph) > maxLen
    THEN [chunks |-> IF st.current # <<>> THEN Append(st.chunks, st.current)
                     ELSE st.chunks,
          current |-> paragraph]
    ELSE [chunks |-> st.chunks,
          current |-> st.current
                      \o (IF st.current # <<>> THEN <<"\n">> ELSE <<>>)
                      \o paragraph]

\* the for loop over the paragraphs
RECURSIVE ChunkLoop(_, _, _)
ChunkLoop(st, paragraphs, maxLen) ==
    IF paragraphs = <<>> THEN st
    ELSE ChunkLoop(ChunkStep(st, Head(paragraphs), maxLen), Tail(paragraphs), maxLen)

\* the last chunk is added when it is not empty
LastChunk(st) ==
    IF st.current # <<>> THEN Append(st.chunks, st.current) ELSE st.chunks

chunkText(text, maxLen) ==
    LastChunk(ChunkLoop([chunks |-> <<>>, current |-> <<>>], split(text), maxLen))

TextChars == {"a", "b", "\n"}
Texts == SeqsUpTo(TextChars, MaxTextLen)
MaxLens == {1, 2, 3, 5}

CallChunkText ==
    /\ pc = "ready"
    /\ pc' = "done"
    /\ op' = "chunkText"
    /\ result' = chunkText(args.text, args.maxLen)
    /\ UNCHANGED <<chunks, query, options, args, calls>>

InitChunkText ==
    /\ pc = "ready"
    /\ op = "none"
    /\ chunks = <<>>
    /\ query = <<>>
    /\ options = <<>>
    /\ args \in [text : Texts, maxLen : MaxLens]
    /\ result = <<>>
    /\ calls = <<>>

NextChunkText == CallChunkText

SpecChunkText == InitChunkText /\ [][NextChunkText]_vars

----------------------------------------------------------------------------
(* One call of performHybridSearch on chunks of equal similarity *)

RankPool ==
    { Chunk("a", 78, 2025),
      Chunk("g", 78, 2021),
      Chunk("f", 78, 2026),
      Chunk("z", 78, 0),
      UndatedChunk("c", 78),
      Chunk("b", 82, 2020) }

\* the lists of different chunks
RankLists ==
    { cs \in SeqsUpTo(RankPool, MaxChunks) :
        \A i \in 1..Len(cs), j \in 1..Len(cs) : i # j => cs[i] # cs[j] }

RankOptions ==
    { <<>>,
      [enableFiltering |-> FALSE],
      [enableWeighting |-> FALSE],
      [enableFiltering |-> FALSE, temporalWeight |-> 10],
      [enableFiltering |-> FALSE, temporalWeight |-> 0] }

InitRank ==
    /\ pc = "ready"
    /\ op = "none"
    /\ chunks \in RankLists
    /\ query \in StageQueries
    /\ options \in RankOptions
    /\ args = <<>>
    /\ result = <<>>
    /\ calls = <<>>

NextRank == CallPerformHybridSearch

SpecRank == InitRank /\ [][NextRank]_vars

----------------------------------------------------------------------------
(* The chat component: sendMessage, handleKeydown, clearChat *)
(*                                                                          *)
(* query is the bound input `message`, chunks the history `messages` (the   *)
(* type of each message), options the flags isLoading and error, calls the  *)
(* invocations of sendMessage that wait for the network, each at its await, *)
(* op the handler that ran last.  The disabled attributes of the template   *)
(* are not relied on: every event may arrive in every state.                *)

MaxHistory == 4     \* messages in the history of the conversation

MESSAGE_TYPES == [USER |-> "user", BOT |-> "bot", ERROR |-> "error"]

\* !message.trim() || isLoading
SendBlocked_noLoadingCheck(message, isLoading) == Len(trim(message)) = 0
SendBlocked(message, isLoading) == Len(trim(message)) = 0 \/ isLoading

\* addMessage(content, type): the history with the new message at its end
addMessage(messages, type) == Append(messages, type)

\* sendMessage up to its first await (the handler of the button Envoyer);
\* the history is kept within MaxHistory
sendMessage ==
    /\ op' = "sendMessage"
    /\ IF SendBlocked(query, options.isLoading)
       THEN UNCHANGED <<query, chunks, options, calls>>
       ELSE /\ Len(chunks) + 2 * (Len(calls) + 1) <= MaxHistory
            /\ query' = <<>>
            /\ chunks' = addMessage(chunks, MESSAGE_TYPES.USER)
            /\ options' = [isLoading |-> TRUE, error |-> <<>>]
            /\ calls' = Append(calls, "fetch")
    /\ UNCHANGED <<pc, args, result>>

\* a key pressed in the input field
handleKeydown ==
    \E key \in {"Enter", "a"}, shiftKey \in BOOLEAN :
        IF key = "Enter" /\ ~shiftKey
        THEN sendMessage
        ELSE /\ op' = "handleKeydown"
             /\ UNCHANGED <<pc, chunks, query, options, args, result, calls>>

\* the user edits the input field
TypedMessages == { <<>>, <<" ">>, <<"q">>, <<" ", "q", " ">> }

TypeMessage ==
    /\ \E m \in TypedMessages : query' = m
    /\ op' = "input"
    /\ UNCHANGED <<pc, chunks, options, args, result, calls>>

clearChat ==
    /\ chunks' = <<>>
    /\ options' = [options EXCEPT !.error = <<>>]
    /\ op' = "clearChat"
    /\ UNCHANGED <<pc, query, args, result, calls>>

\* the list without its element i
RemoveAt(list, i) == SubSeq(list, 1, i - 1) \o SubSeq(list, i + 1, Len(list))

\* the catch and finally blocks of sendMessage of invocation i
SendFailed(i, errMessage) ==
    /\ chunks' = addMessage(chunks, MESSAGE_TYPES.ERROR)
    /\ options' = [isLoading |-> FALSE, error |-> <<errMessage>>]
    /\ calls' = RemoveAt(calls, i)

\* await fetch(...) settles: a response, whose status is kept, or a rejection
FetchSettles ==
    \E i \in 1..Len(calls) :
        /\ calls[i] = "fetch"
        /\ \E outcome \in {"ok", "notOk", "rejected"} :
              IF outcome = "rejected"
              THEN SendFailed(i, "Failed to fetch")
              ELSE /\ calls' = [calls EXCEPT ![i] = outcome]
                   /\ UNCHANGED <<chunks, options>>
        /\ op' = "fetchSettled"
        /\ UNCHANGED <<pc, query, args, result>>

\* await response.json() settles; the rest of sendMessage runs
JsonSettles ==
    \E i \in 1..Len(calls) :
        /\ calls[i] \in {"ok", "notOk"}
        /\ \E parsed \in BOOLEAN :
              IF parsed /\ calls[i] = "ok"
              THEN /\ chunks' = addMessage(chunks, MESSAGE_TYPES.BOT)
                   /\ options' = [options EXCEPT !.isLoading = FALSE]
                   /\ calls' = RemoveAt(calls, i)
              ELSE SendFailed(i, IF parsed THEN "data.error" ELSE "Unexpected token")
        /\ op' = "jsonSettled"
        /\ UNCHANGED <<pc, query, args, result>>

InitComponent ==
    /\ pc = "mounted"
    /\ op = "none"
    /\ chunks = <<>>
    /\ query = <<>>
    /\ options = [isLoading |-> FALSE, error |-> <<>>]
    /\ args = <<>>
    /\ result = <<>>
    /\ calls = <<>>

NextComponent ==
    \/ sendMessage
    \/ handleKeydown
    \/ TypeMessage
    \/ clearChat
    \/ FetchSettles
    \/ JsonSettles

SpecComponent == InitComponent /\ [][NextComponent]_vars

----------------------------------------------------------------------------
(* Properties *)

\* the elements of a sequence
Range(f) == { f[i] : i \in DOMAIN f }

\* the value of an option after the destructuring defaults
FilteringEnabled(opts) == Option(opts, "enableFiltering", TRUE)
WeightingEnabled(opts) == Option(opts, "enableWeighting", TRUE)

\* C1: filterByYear retains a chunk if and only if the chunk has no year
\* field or |chunk.year - targetYear| <= tolerance, for every integer value
\* of the year
C1_FilterRetainsIffUndatedOrNear ==
    (op = "filterByYear") =>
        \A i \in 1..Len(args.chunks) :
            LET chunk == args.chunks[i]
            IN  (chunk \in Range(result)) <=>
                    \/ "year" \notin DOMAIN chunk
                    \/ Abs(chunk.year - args.targetYear) <= args.tolerance

\* C2: extractYearFromQuery returns either null or an integer of 1900..2100
C2_ExtractedYearInRange ==
    (op = "extractYearFromQuery") =>
        \/ result = <<>>
        \/ Len(result) = 1 /\ result[1] \in 1900..2100

\* a query with four consecutive digits whose value was rejected
C2_Witness ==
    /\ op = "extractYearFromQuery"
    /\ result = <<>>
    /\ GlobalMatch(<<>>, query, 1) # <<>>

\* some match of some pattern carries a four-digit value of 1900..2100
SomeMatchInRange(q) ==
    \E k \in 1..Len(yearPatterns) :
        \E m \in Range(GlobalMatch(yearPatterns[k], q, 1)) :
            parseInt(FirstFourDigits(m, 1)) \in 1900..2100

\* C3: whenever some pattern has a match whose four-digit value lies in
\* 1900..2100, extractYearFromQuery returns a year
C3_YearReturnedWhenSomeMatchValid ==
    (op = "extractYearFromQuery" /\ SomeMatchInRange(query)) => result # <<>>

\* C4: temporalFilterApplied is true exactly when filtering is enabled and a
\* year was extracted, temporalWeightingApplied exactly when weighting is
\* enabled and a year was extracted
C4_AppliedFlagsIff ==
    (op = "performHybridSearch") =>
        LET found == extractYearFromQuery(args.query) # <<>>
        IN  /\ result.metadata.temporalFilterApplied
                <=> (FilteringEnabled(args.options) /\ found)
            /\ result.metadata.temporalWeightingApplied
                <=> (WeightingEnabled(args.options) /\ found)

\* a year was found, filtering ran and weighting was switched off
C4_Witness ==
    /\ op = "performHybridSearch"
    /\ result.metadata.queryYear # <<>>
    /\ result.metadata.temporalFilterApplied
    /\ ~result.metadata.temporalWeightingApplied

\* C5: originalCount is the number of chunks received, filteredCount is at
\* most originalCount and equals it when filtering is disabled or no year is
\* found
C5_MetadataCounts ==
    (op = "performHybridSearch") =>
        LET m == result.metadata
        IN  /\ m.originalCount = Len(args.chunks)
            /\ m.filteredCount <= m.originalCount
            /\ (~FilteringEnabled(args.options) \/ extractYearFromQuery(args.query) = <<>>)
                   => m.filteredCount = m.originalCount

\* filtering removed a chunk and kept another
C5_Witness ==
    /\ op = "performHybridSearch"
    /\ result.metadata.temporalFilterApplied
    /\ result.metadata.filteredCount > 0
    /\ result.metadata.filteredCount < result.metadata.originalCount

\* the key the ranked list is ordered by according to the metadata
RankKey(r) == IF r.metadata.temporalWeightingApplied THEN "finalScore" ELSE "score"

\* C6: the returned list is in descending order of finalScore when weighting
\* was applied and of score otherwise
C6_RankedDescending ==
    (op = "performHybridSearch") =>
        \A i \in 1..(Len(result.chunks) - 1) :
            result.chunks[i][RankKey(result)] >= result.chunks[i + 1][RankKey(result)]

\* weighting put a chunk of lower similarity before one of higher similarity
C6_Witness ==
    /\ op = "performHybridSearch"
    /\ result.metadata.temporalWeightingApplied
    /\ Len(result.chunks) >= 2
    /\ result.chunks[1].score < result.chunks[2].score
    /\ result.chunks[1].finalScore > result.chunks[2].finalScore

\* C7: for every chunk that has a year applyTemporalWeighting emits a record
\* with temporalScore = proximity(queryYear, year), finalScore the blend of
\* score and temporalScore, and originalScore = score
C7_DatedChunkWeighted ==
    (op = "applyTemporalWeighting") =>
        \A i \in 1..Len(args.chunks) :
            LET chunk == args.chunks[i]
                rec == result[i]
            IN  ("year" \in DOMAIN chunk) =>
                    /\ {"temporalScore", "finalScore", "originalScore"} \subseteq DOMAIN rec
                    /\ rec.temporalScore = calculateTemporalProximity(args.queryYear, chunk.year)
                    /\ rec.finalScore * 10 =
                           (10 - args.temporalWeight) * chunk.score
                               + args.temporalWeight * rec.temporalScore
                    /\ rec.originalScore = chunk.score

\* C8: for every chunk without a year applyTemporalWeighting emits a record
\* whose finalScore is the chunk's score and that has no temporalScore
C8_UndatedChunkUntouched ==
    (op = "applyTemporalWeighting") =>
        \A i \in 1..Len(args.chunks) :
            ("year" \notin DOMAIN args.chunks[i]) =>
                /\ result[i].finalScore = args.chunks[i].score
                /\ "temporalScore" \notin DOMAIN result[i]

\* an undated chunk went through weighting with a positive weight, next to a
\* dated one
C8_Witness ==
    /\ op = "applyTemporalWeighting"
    /\ args.temporalWeight > 0
    /\ \E i \in 1..Len(args.chunks) : "year" \notin DOMAIN args.chunks[i]
    /\ \E i \in 1..Len(args.chunks) : "temporalScore" \in DOMAIN result[i]

\* the list a call returned
ReturnedList == IF op = "performHybridSearch" THEN result.chunks ELSE result

AddedFields == {"temporalScore", "finalScore", "originalScore"}

\* C9: after a call of performHybridSearch, filterByYear or
\* applyTemporalWeighting the caller's list has the same chunks in the same
\* order, and every returned record is an input chunk to which at most
\* temporalScore, finalScore and originalScore were added
C9_InputsUnchanged ==
    (op \in {"performHybridSearch", "filterByYear", "applyTemporalWeighting"}) =>
        /\ chunks = args.chunks
        /\ \A i \in 1..Len(ReturnedList) :
               LET rec == ReturnedList[i]
               IN  \E chunk \in Range(args.chunks) :
                       /\ DOMAIN chunk \subseteq DOMAIN rec
                       /\ DOMAIN rec \subseteq DOMAIN chunk \cup AddedFields
                       /\ \A k \in DOMAIN chunk : rec[k] = chunk[k]

\* performHybridSearch sorted without filtering or weighting, and the ranked
\* order differs from the order of the caller's list
C9_Witness ==
    /\ op = "performHybridSearch"
    /\ ~result.metadata.temporalFilterApplied
    /\ ~result.metadata.temporalWeightingApplied
    /\ result.chunks # args.chunks

ProximityDiff == Abs(args.queryYear - args.documentYear)

\* C11: calculateTemporalProximity(q, d) is 0.8 to the power |q - d|: it is
\* exactly 1 when q = d, lies in (0, 1], does not increase when |q - d| grows,
\* and is 0.8, 0.64 and 0.32768 at distances 1, 2 and 5
C11_ProximityIsPowerOfDecay ==
    (op = "calculateTemporalProximity") =>
        /\ result > 0 /\ result <= Unit
        /\ (args.queryYear = args.documentYear) => result = Unit
        /\ result % Pow(10, MaxYearDiff + 1 - ProximityDiff) = 0
        /\ result \div Pow(10, MaxYearDiff + 1 - ProximityDiff) = Pow(8, ProximityDiff)
        /\ (ProximityDiff = 1) => result * 10 = 8 * Unit
        /\ (ProximityDiff = 2) => result * 100 = 64 * Unit
        /\ (ProximityDiff = 5) => result = 32768 * (Unit \div 100000)
        /\ \A y \in (args.queryYear - MaxYearDiff)..(args.queryYear + MaxYearDiff) :
               (Abs(args.queryYear - y) >= ProximityDiff)
                   => calculateTemporalProximity(args.queryYear, y) <= result

\* a document five years before the query year scores 0.32768
C11_Witness ==
    /\ op = "calculateTemporalProximity"
    /\ args.queryYear - args.documentYear = 5
    /\ result = 32768 * (Unit \div 100000)

\* C12: for an empty chunk list performHybridSearch returns an empty ranked
\* list, originalCount = filteredCount = 0, and queryYear is the year
\* extracted from the query
C12_EmptyInputEmptyOutput ==
    (op = "performHybridSearch" /\ args.chunks = <<>>) =>
        /\ result.chunks = <<>>
        /\ result.metadata.originalCount = 0
        /\ result.metadata.filteredCount = 0
        /\ result.metadata.queryYear = extractYearFromQuery(args.query)

\* no chunk was handed in and the query names a year
C12_Witness ==
    /\ op = "performHybridSearch"
    /\ args.chunks = <<>>
    /\ result.chunks = <<>>
    /\ result.metadata.queryYear = <<2025>>

\* the filter of the call rejects every chunk of a non-empty list
FilterRemovesAll ==
    /\ args.chunks # <<>>
    /\ extractYearFromQuery(args.query) # <<>>
    /\ FilteringEnabled(args.options)
    /\ \A i \in 1..Len(args.chunks) :
           ~KeepChunk(args.chunks[i], extractYearFromQuery(args.query)[1],
                      Option(args.options, "yearTolerance", DefaultYearTolerance))

\* C13: when temporal filtering removes every chunk, performHybridSearch
\* returns an empty ranked list with filteredCount = 0 and
\* temporalFilterApplied = true, without falling back to the unfiltered set
C13_NoFallbackWhenAllFiltered ==
    (op = "performHybridSearch" /\ FilterRemovesAll) =>
        /\ result.chunks = <<>>
        /\ result.metadata.filteredCount = 0
        /\ result.metadata.temporalFilterApplied
        /\ result.metadata.originalCount = Len(args.chunks)
        /\ result.metadata.temporalWeightingApplied = WeightingEnabled(args.options)

\* every chunk of a non-empty list was filtered out and weighting ran on the
\* empty list
C13_Witness ==
    /\ op = "performHybridSearch"
    /\ FilterRemovesAll
    /\ Len(args.chunks) >= 2
    /\ result.chunks = <<>>
    /\ result.metadata.temporalWeightingApplied

\* the values in 1900..2100 carried by the matches of the pattern with cue
\* list cues in q
MatchYears(cues, q) ==
    { parseInt(FirstFourDigits(m, 1)) : m \in Range(GlobalMatch(cues, q, 1)) }
        \cap (1900..2100)

\* the years that q introduces by a cue phrase
CueYears(q) == MatchYears(Cues2, q) \cup MatchYears(Cues3, q)

\* C14: when the query holds a year introduced by a cue phrase and a
\* different bare four-digit number of 1900..2100, the year of the cue
\* phrase is returned
C14_CuePhrasePreferred ==
    (/\ op = "extractYearFromQuery"
     /\ CueYears(query) # {}
     /\ MatchYears(<<>>, query) \ CueYears(query) # {})
        => (result # <<>> /\ result[1] \in CueYears(query))

\* the positions of q that hold a digit
DigitPositions(q) == { i \in 1..Len(q) : IsDigit(q[i]) }

\* the digits of q form one run of more than four digits
OneLongDigitRun(q) ==
    /\ Cardinality(DigitPositions(q)) > 4
    /\ \A i, j \in DigitPositions(q) :
           \A k \in i..j : k \in DigitPositions(q)

\* C15: a query whose only digits form a run of more than four digits
\* yields no year
C15_LongDigitRunYieldsNoYear ==
    (op = "extractYearFromQuery" /\ OneLongDigitRun(query)) => result = <<>>

\* the options that carry the values of a HYBRID_SEARCH_CONFIG
OptionsOfConfig(cfg) ==
    [temporalWeight |-> cfg.TEMPORAL_WEIGHT,
     yearTolerance |-> cfg.YEAR_TOLERANCE,
     enableFiltering |-> cfg.ENABLE_FILTERING,
     enableWeighting |-> cfg.ENABLE_WEIGHTING]

\* what performHybridSearch returns for the request under the values of cfg
ConfiguredSearch(cfg) ==
    performHybridSearch(args.chunks, args.query, OptionsOfConfig(cfg))

\* C16: the ranked list and the metadata of a chat request are those of
\* performHybridSearch called with temporalWeight, yearTolerance,
\* enableFiltering and enableWeighting set to the values of the handler's
\* HYBRID_SEARCH_CONFIG
C16_ChatSearchFollowsConfig ==
    (op = "POST") =>
        /\ result.chunks = ConfiguredSearch(args.options).chunks
        /\ result.metadata = ConfiguredSearch(args.options).metadata

\* C17 as stated: every record output by applyTemporalWeighting that has a
\* finalScore, dated or undated, has an originalScore equal to the chunk's
\* score
C17_FinalScoreCarriesOriginalScore ==
    (op = "applyTemporalWeighting") =>
        \A i \in 1..Len(result) :
            ("finalScore" \in DOMAIN result[i]) =>
                /\ "originalScore" \in DOMAIN result[i]
                /\ result[i].originalScore = args.chunks[i].score

\* C17 as amended: every record output by applyTemporalWeighting has a
\* finalScore; it has an originalScore exactly when it has a temporalScore,
\* and the originalScore is then the chunk's score before weighting
C17_OriginalScoreWithTemporalScore ==
    (op = "applyTemporalWeighting") =>
        \A i \in 1..Len(result) :
            /\ "finalScore" \in DOMAIN result[i]
            /\ ("originalScore" \in DOMAIN result[i])
                   <=> ("temporalScore" \in DOMAIN result[i])
            /\ ("originalScore" \in DOMAIN result[i])
                   => result[i].originalScore = args.chunks[i].score

\* a dated chunk whose finalScore differs from its score was weighted next
\* to an undated chunk
C17_Witness ==
    /\ op = "applyTemporalWeighting"
    /\ \E i \in 1..Len(result) :
           /\ "originalScore" \in DOMAIN result[i]
           /\ result[i].finalScore # result[i].originalScore
    /\ \E i \in 1..Len(result) : "originalScore" \notin DOMAIN result[i]

\* C18: in the list returned by performHybridSearch a chunk has a finalScore
\* if and only if weighting was applied, and a temporalScore if and only if
\* weighting was applied and the chunk has a year
C18_ScoreFieldsPresence ==
    (op = "performHybridSearch") =>
        \A i \in 1..Len(result.chunks) :
            LET rec == result.chunks[i]
            IN  /\ ("finalScore" \in DOMAIN rec)
                       <=> result.metadata.temporalWeightingApplied
                /\ ("temporalScore" \in DOMAIN rec)
                       <=> (result.metadata.temporalWeightingApplied
                            /\ "year" \in DOMAIN rec)

\* the call of the scenario: the 2025 chunk of score 0.78 and the 2020 chunk
\* of score 0.82, the scenario query and the default configuration
ScenarioCall ==
    /\ op = "performHybridSearch"
    /\ args.chunks = <<Chunk("a", 78, 2025), Chunk("b", 82, 2020)>>
    /\ args.query = ScenarioQuery
    /\ args.options = <<>>

\* C19: for "Quels sont les projets pour 2025?", the chunks {0.78, 2025} and
\* {0.82, 2020} and the default configuration, only the 2025 chunk is
\* returned, with temporalScore 1.0 and finalScore 0.846, and the metadata are
\* {2025, true, true, 2, 1}
C19_Scenario2025 ==
    ScenarioCall =>
        /\ Len(result.chunks) = 1
        /\ result.chunks[1].year = 2025
        /\ result.chunks[1].score = 78 * (Unit \div 100)
        /\ result.chunks[1].temporalScore = Unit
        /\ result.chunks[1].finalScore = 846 * (Unit \div 1000)
        /\ result.metadata = [queryYear |-> <<2025>>,
                              temporalFilterApplied |-> TRUE,
                              temporalWeightingApplied |-> TRUE,
                              originalCount |-> 2,
                              filteredCount |-> 1]

\* the call of the scenario was made and returned one chunk
C19_Witness ==
    /\ ScenarioCall
    /\ Len(result.chunks) = 1
    /\ result.chunks[1].text = "a"

\* sub can be obtained from full by deleting elements
RECURSIVE IsSubsequence(_, _)
IsSubsequence(sub, full) ==
    IF sub = <<>> THEN TRUE
    ELSE IF full = <<>> THEN FALSE
    ELSE IF Head(sub) = Head(full)
         THEN IsSubsequence(Tail(sub), Tail(full))
         ELSE IsSubsequence(sub, Tail(full))

\* C20: the output of filterByYear is a subsequence of its input: surviving
\* chunks keep their relative order and no chunk is added or duplicated
C20_FilterOutputIsSubsequence ==
    (op = "filterByYear") => IsSubsequence(result, args.chunks)

\* a filter call that removed a chunk and kept at least two different ones
C20_Witness ==
    /\ op = "filterByYear"
    /\ Len(result) >= 2
    /\ Len(result) < Len(args.chunks)
    /\ result[1] # result[2]

----------------------------------------------------------------------------
(* Properties of the chat request handler *)

Min(a, b) == IF a < b THEN a ELSE b

\* request r was answered with the given status
Responded(r, status) == pc[r] = "responded" /\ result[r].status = status

\* the ranked list performHybridSearch returns for request r, from the reply
\* of the vector search and the trimmed message
RankedList(r) ==
    performHybridSearch(VectorSearchChunks(args[r].replies[2]),
                        trim(args[r].body.message.value),
                        HYBRID_SEARCH_CONFIG).chunks

\* C21: the chunks of the LLM context and the returned sources are the first
\* min(10, n) chunks of the ranked list of performHybridSearch, in ranked
\* order; chunksFound is the number of returned sources and is at most 10
C21_ContextIsRankedPrefix ==
    \A r \in Requests :
        Responded(r, 200) =>
            LET ranked == RankedList(r)
                k == Min(10, Len(ranked))
                body == result[r].body
            IN  /\ Len(body.sources) = k
                /\ Len(body.contextText) = k
                /\ \A i \in 1..k :
                       /\ body.contextText[i].text = ranked[i].text
                       /\ body.sources[i].originalScore = ranked[i].score
                       /\ body.sources[i].score = ranked[i][RankKey([metadata |-> body.searchMetadata])]
                /\ body.chunksFound = Len(body.sources)
                /\ body.chunksFound <= 10

\* a request was answered from a ranked list of more than ten chunks
C21_Witness ==
    \E r \in Requests :
        /\ Responded(r, 200)
        /\ Len(RankedList(r)) > 10
        /\ result[r].body.chunksFound = 10

\* s is an initial segment of t
IsPrefix(s, t) == Len(s) <= Len(t) /\ s = SubSeq(t, 1, Len(s))

CallOrder == <<"embedding", "vectorSearch", "hybridSearch", "generation">>

\* C22: within one request the calls happen in the order embedding, vector
\* search, hybrid search, generative model, at most once each; the vector
\* search is not issued before the embedding returned, and the generative
\* model is called only after the vector search returned successfully
C22_CallsInOrder ==
    \A r \in Requests :
        /\ IsPrefix(calls[r], CallOrder)
        /\ Len(calls[r]) >= 2 =>
               Len(args[r].replies) >= 1 /\ args[r].replies[1].ok
        /\ Len(calls[r]) >= 3 =>
               /\ Len(calls[r]) = 4
               /\ Len(args[r].replies) >= 2 /\ args[r].replies[2].ok

\* a request went through its four calls and was answered
C22_Witness ==
    \E r \in Requests :
        /\ Responded(r, 200)
        /\ calls[r] = CallOrder
        /\ Len(args[r].replies) = 3

\* no string message can be read from the body, or the message is blank
MessageMissingOrInvalid(body) == body.json # "object" \/ MessageInvalid(body)

\* the configuration is missing or one of the replies received was a failure
LaterStepFailed(r) ==
    \/ ~EnvValid(args[r].env)
    \/ \E i \in 1..Len(args[r].replies) : ~args[r].replies[i].ok

\* C23: a request ends with status 400 and 'Message manquant ou invalide',
\* no external call made, when the message is missing, not a string or blank;
\* with status 500, an error and details when the configuration is missing
\* or a later step fails; with status 200 and answer, sources, chunksFound
\* and searchMetadata otherwise
C23_ResponseByCase ==
    \A r \in Requests :
        (pc[r] = "responded") =>
            IF MessageMissingOrInvalid(args[r].body)
            THEN /\ result[r].status = 400
                 /\ result[r].body = [error |-> "Message manquant ou invalide"]
                 /\ calls[r] = <<>>
            ELSE IF LaterStepFailed(r)
            THEN /\ result[r].status = 500
                 /\ DOMAIN result[r].body = {"error", "details"}
            ELSE /\ result[r].status = 200
                 /\ {"answer", "sources", "chunksFound", "searchMetadata"}
                        \subseteq DOMAIN result[r].body

\* the response to a request handled alone, from its body, its environment
\* and the replies it received from the three services
HandledAlone(body, env, replies) ==
    IF JsonThrows(body) THEN CaughtResponse("request.json")
    ELSE IF MessageInvalid(body)
    THEN createErrorResponse(400, "Message manquant ou invalide", "")
    ELSE IF ~EnvValid(env) THEN CaughtResponse("Configuration manquante")
    ELSE IF ~replies[1].ok THEN CaughtResponse("featureExtraction")
    ELSE IF ~replies[2].ok THEN CaughtResponse("Erreur lors de la recherche Qdrant")
    ELSE IF ~replies[3].ok THEN CaughtResponse("chatCompletion")
    ELSE createSuccessResponse(
             responseData(SearchContext(VectorSearchChunks(replies[2]),
                                        trim(body.message.value)),
                          Answer(replies[3])))

\* C24: whatever the interleaving of the requests, the ranked chunks, the
\* metadata and the response of each request are those of the same request
\* handled alone with the same replies, and the shared configuration is
\* never written
C24_RequestsIndependent ==
    /\ options = HYBRID_SEARCH_CONFIG
    /\ \A r \in Requests :
           /\ (pc[r] = "generation") =>
                  /\ chunks[r].topChunks = RankedList(r)
                  /\ chunks[r] = SearchContext(VectorSearchChunks(args[r].replies[2]),
                                               trim(args[r].body.message.value))
           /\ (pc[r] = "responded") =>
                  result[r] = HandledAlone(args[r].body, args[r].env, args[r].replies)

\* a request was answered while another one, with another message and other
\* chunks, was waiting for the generative model
C24_Witness ==
    \E r1 \in Requests, r2 \in Requests :
        /\ Responded(r1, 200)
        /\ pc[r2] = "generation"
        /\ query[r1] # query[r2]
        /\ chunks[r1].topChunks # <<>>
        /\ chunks[r2].topChunks # <<>>
        /\ chunks[r1].topChunks # chunks[r2].topChunks

----------------------------------------------------------------------------
(* Properties of chunkText *)

\* C25: every chunk returned by chunkText(text, maxLen) has at most maxLen
\* characters
C25_ChunkWithinMaxLen ==
    (op = "chunkText") =>
        \A i \in 1..Len(result) : Len(result[i]) <= args.maxLen

\* the non-empty paragraphs of s, in order: its maximal newline-free segments
Paragraphs(s) == SelectSeq(split(s), LAMBDA p : p # <<>>)

\* the non-empty paragraphs of the chunks, chunk after chunk
RECURSIVE ParagraphsOfChunks(_)
ParagraphsOfChunks(cs) ==
    IF cs = <<>> THEN <<>>
    ELSE Paragraphs(Head(cs)) \o ParagraphsOfChunks(Tail(cs))

\* C27: every non-empty paragraph of the text is whole in exactly one chunk,
\* the paragraphs keep their order across and within the chunks, and no
\* chunk is empty
C27_ParagraphsPreserved ==
    (op = "chunkText") =>
        /\ ParagraphsOfChunks(result) = Paragraphs(args.text)
        /\ \A i \in 1..Len(result) : result[i] # <<>>

\* a text of three paragraphs was cut into two chunks, one of two paragraphs
C27_Witness ==
    /\ op = "chunkText"
    /\ Len(Paragraphs(args.text)) = 3
    /\ Len(result) = 2
    /\ \E i \in 1..2 : Len(Paragraphs(result[i])) = 2

----------------------------------------------------------------------------
(* Properties of the ranking *)

\* the index in the list cs of the chunk of the given text
Position(text, cs) == CHOOSE i \in 1..Len(cs) : cs[i].text = text

\* C26: two chunks of equal sort key (finalScore when weighting was applied,
\* score otherwise) are returned in the relative order they had in the input
C26_SortIsStable ==
    (op = "performHybridSearch") =>
        \A i \in 1..Len(result.chunks), j \in 1..Len(result.chunks) :
            (/\ i < j
             /\ result.chunks[i][RankKey(result)] = result.chunks[j][RankKey(result)])
            => Position(result.chunks[i].text, args.chunks)
                   < Position(result.chunks[j].text, args.chunks)

\* weighting gave two chunks of different years the same finalScore, and a
\* chunk of a higher finalScore stood between them or behind them in the input
C26_Witness ==
    /\ op = "performHybridSearch"
    /\ result.metadata.temporalWeightingApplied
    /\ Len(result.chunks) = 3
    /\ \E i \in 1..2 :
          /\ "temporalScore" \in DOMAIN result.chunks[i]
          /\ "temporalScore" \in DOMAIN result.chunks[i + 1]
          /\ result.chunks[i].finalScore = result.chunks[i + 1].finalScore
          /\ result.chunks[i].year # result.chunks[i + 1].year
    /\ result.chunks[1].text # args.chunks[1].text

\* a returned record without the fields weighting adds
Strip(rec) == [k \in (DOMAIN rec) \ AddedFields |-> rec[k]]

\* how many times x occurs in the list
Count(x, list) == Cardinality({ i \in 1..Len(list) : list[i] = x })

\* the chunks of the input that survive the filtering step of the call
Survivors ==
    IF result.metadata.temporalFilterApplied
    THEN filterByYear(args.chunks, result.metadata.queryYear[1],
                      Option(args.options, "yearTolerance", DefaultYearTolerance))
    ELSE args.chunks

\* C28: the returned list has metadata.filteredCount elements, and they are
\* the chunks that survived filtering, each once and none added, whether or
\* not weighting was applied
C28_ReturnedAreTheSurvivors ==
    (op = "performHybridSearch") =>
        /\ Len(result.chunks) = result.metadata.filteredCount
        /\ Len(result.chunks) = Len(Survivors)
        /\ \A i \in 1..Len(Survivors) :
               Count(Survivors[i], [k \in 1..Len(result.chunks) |-> Strip(result.chunks[k])])
                   = Count(Survivors[i], Survivors)

\* filtering removed a chunk, weighting was applied and an undated chunk was
\* returned with a dated one
C28_Witness ==
    /\ op = "performHybridSearch"
    /\ result.metadata.temporalFilterApplied
    /\ result.metadata.temporalWeightingApplied
    /\ Len(result.chunks) < Len(args.chunks)
    /\ \E i \in 1..Len(result.chunks), j \in 1..Len(result.chunks) :
          /\ "temporalScore" \in DOMAIN result.chunks[i]
          /\ "year" \notin DOMAIN result.chunks[j]

\* weighting was applied in the call with a temporal weight above 0
WeightedCall ==
    /\ op = "performHybridSearch"
    /\ result.metadata.temporalWeightingApplied
    /\ Option(args.options, "temporalWeight", DefaultTemporalWeight) > 0

\* the distance of the year of a dated record to the query year of the call
YearDistance(rec) == Abs(rec.year - result.metadata.queryYear[1])

\* C29: when weighting is applied with temporalWeight > 0, of two dated
\* chunks of equal similarity score the one whose year is strictly closer to
\* the query year has the strictly greater finalScore and is ranked before
\* the other
C29_CloserYearRanksFirst ==
    WeightedCall =>
        \A i \in 1..Len(result.chunks), j \in 1..Len(result.chunks) :
            (/\ "year" \in DOMAIN result.chunks[i]
             /\ "year" \in DOMAIN result.chunks[j]
             /\ result.chunks[i].score = result.chunks[j].score
             /\ YearDistance(result.chunks[i]) < YearDistance(result.chunks[j]))
            => /\ result.chunks[i].finalScore > result.chunks[j].finalScore
               /\ i < j

----------------------------------------------------------------------------
(* Properties of the chat component *)

\* C30: isLoading is true exactly while a chat request is in flight, at most
\* one request is in flight at any time, and a sendMessage that finds
\* isLoading true or the message blank changes nothing
C30_LoadingWhileInFlight ==
    /\ [](pc = "mounted" =>
            /\ options.isLoading <=> Len(calls) > 0
            /\ Len(calls) <= 1)
    /\ [][(op' = "sendMessage" /\ (options.isLoading \/ Len(trim(query)) = 0))
            => UNCHANGED <<chunks, query, options, calls>>]_vars

\* sendMessage was called with a message typed while the request of the
\* message before was in flight, and did nothing
C30_Witness ==
    /\ pc = "mounted"
    /\ op = "sendMessage"
    /\ options.isLoading
    /\ Len(trim(query)) > 0
    /\ Len(calls) = 1
    /\ chunks = <<"user", "error", "user">>

====
